---- MODULE Spec2Model ----
(***************************************************************************)
(* A model of la_forge/bfacs.py: the thermodynamic-integration evidence    *)
(* estimator, its bootstrap helpers, the Bayes-factor combiner and the     *)
(* product-space odds-ratio bootstrap.                                     *)
(*                                                                         *)
(* One Python process is modelled.  The module is imported once (Load);    *)
(* afterwards the caller invokes the module's functions one at a time.     *)
(* A call runs to completion in one step (the code is single threaded),    *)
(* leaving its locals and its outcome in the frame variables; Return       *)
(* hands the outcome to the caller and discards the frame.                 *)
(*                                                                         *)
(* Numbers.  Python floats are carried as exact rationals <<n, d>> with    *)
(* d > 0 in lowest terms; <<0, 0>> is NaN.  Standard deviations are        *)
(* carried as their squares (np.std is the square root of a rational).     *)
(* Logarithms to base 10 are carried as exact multiples of log10(2), so    *)
(* that Log10 and Pow10 are exact on the powers of two the temperature     *)
(* ladders of the model are made of.                                       *)
(***************************************************************************)
EXTENDS Integers, Sequences, FiniteSets, TLC

\* ------------------------------------------------------------------ bounds
\* largest exponent e of a ladder temperature T = 2^e
MaxExp == 4
\* number of interpolation points of the integration grid (num=10000 in the
\* source, scaled down; the ladders of the model span a multiple of
\* NumGrid - 1 octaves so that every grid point is an exact power of two)
NumGrid == 3
\* largest number of bootstrap realizations (num_reals, iterations)
MaxReals == 2
\* verbose reports that fit on the modelled standard output
MaxReports == 1
\* longest of the short chains
MaxLen == 3
\* longest ladder of the ladder family
MaxLadder == 3

\* ------------------------------------------------------- exact arithmetic
Abs(n) == IF n < 0 THEN -n ELSE n

RECURSIVE GCD(_, _)
GCD(a, b) == IF b = 0 THEN a ELSE GCD(b, a % b)

NaN == <<0, 0>>

IsNaN(q) == q[2] = 0

\* the rational n/d in lowest terms with a positive denominator
Norm(n, d) ==
    IF d = 0 THEN NaN
    ELSE LET g == GCD(Abs(n), Abs(d))
             s == IF d < 0 THEN -1 ELSE 1
         IN  <<s * (n \div g), s * (d \div g)>>

R(n) == <<n, 1>>

RAdd(p, q) ==
    IF IsNaN(p) \/ IsNaN(q) THEN NaN
    ELSE LET g == GCD(p[2], q[2])
         IN  Norm(p[1] * (q[2] \div g) + q[1] * (p[2] \div g), (p[2] \div g) * q[2])

RNeg(p) == IF IsNaN(p) THEN NaN ELSE <<-p[1], p[2]>>

RSub(p, q) == RAdd(p, RNeg(q))

RMul(p, q) ==
    IF IsNaN(p) \/ IsNaN(q) THEN NaN
    ELSE LET a == Norm(p[1], q[2])
             b == Norm(q[1], p[2])
         IN  Norm(a[1] * b[1], a[2] * b[2])

\* float division of numpy arrays: x / 0 is not finite
RDiv(p, q) ==
    IF IsNaN(p) \/ IsNaN(q) \/ q[1] = 0 THEN NaN
    ELSE RMul(p, IF q[1] < 0 THEN <<-q[2], -q[1]>> ELSE <<q[2], q[1]>>)

RLess(p, q) == p[1] * q[2] < q[1] * p[2]

RLeq(p, q) == p[1] * q[2] <= q[1] * p[2]

RECURSIVE Pow2(_)
Pow2(e) == IF e = 0 THEN 1 ELSE 2 * Pow2(e - 1)

RECURSIVE ILog2(_)
ILog2(n) == IF n <= 1 THEN 0 ELSE 1 + ILog2(n \div 2)

\* ------------------------------------------------------------- sequences
Range(s) == {s[i] : i \in 1..Len(s)}

RECURSIVE SumSeq(_)
SumSeq(s) == IF s = <<>> THEN R(0) ELSE RAdd(s[1], SumSeq(Tail(s)))

\* the sequence s with its elements evaluated once and for all
Array(s) == SubSeq(s, 1, Len(s))

Reverse(s) == Array([i \in 1..Len(s) |-> s[Len(s) + 1 - i]])

RECURSIVE MinOf(_)
MinOf(s) == IF Len(s) = 1 THEN s[1]
            ELSE LET m == MinOf(Tail(s)) IN IF s[1] < m THEN s[1] ELSE m

\* ---------------------------------------------------------------- matrices
\* A 2-d numpy array: its shape and its entries at[row][column].
Matrix(nrows, ncols, entry) ==
    [rows |-> nrows, cols |-> ncols,
     at |-> Array([k \in 1..nrows |-> Array([i \in 1..ncols |-> entry[k, i]])])]

\* betalike[:, ii]
Column(mat, ii) == Array([k \in 1..mat.rows |-> mat.at[k][ii]])

\* ------------------------------------------------------- the chain accessor
\* slices_core.params
Params(sc) == sc.params

\* slices_core.get_param(name): the full chain stored under that name
get_param(sc, name) ==
    sc.chains[CHOOSE i \in 1..Len(sc.params) : sc.params[i] = name]

\* a[::step] for step >= 1: every step-th sample, the first included
Stride(a, step) ==
    [k \in 1..((Len(a) + step - 1) \div step) |-> a[(k - 1) * step + 1]]

\* int(x) of a positive float
IntOf(q) == q[1] \div q[2]

\* ------------------------------------------------------------ make_betalike
\* a slip: hot_chain[:min_length], the leading samples
LeadingSlice(hot_chain, min_length) == [k \in 1..min_length |-> hot_chain[k]]

\* hot_chain[len(hot_chain) - min_length:]
TrailingSlice(hot_chain, min_length) ==
    [k \in 1..min_length |-> hot_chain[Len(hot_chain) - min_length + k]]

\* make_betalike(slices_core): min() of an empty list raises ValueError
make_betalike(sc) ==
    LET temps == Params(sc)
        chain_lengths == [ii \in 1..Len(temps) |-> Len(get_param(sc, temps[ii]))]
        num_temps == Len(chain_lengths)
    IN  IF num_temps = 0
        THEN [outcome |-> "raised", fault |-> "ValueError"]
        ELSE LET min_length == MinOf(chain_lengths)
                 cell == [k \in 1..min_length, ii \in 1..num_temps |->
                             TrailingSlice(get_param(sc, temps[ii]), min_length)[k]]
             IN  [outcome |-> "returned",
                  temps |-> temps,
                  betalike |-> Matrix(min_length, num_temps, cell)]

\* ------------------------------------------------------------- ti_bootstrap
\* the factor 0.1 of int(0.1 * len(trimmed_like))
SampleFractionDen == 10

\* int(0.1 * len(trimmed_like))
NumSamples(trimmed_len) == IntOf(Norm(trimmed_len, SampleFractionDen))

\* np.mean of one row of draws (NaN for an empty row)
MeanRow(row) ==
    RDiv(SumSeq(Array([k \in 1..Len(row) |-> R(row[k])])), R(Len(row)))

\* a slip: np.flip(m, axis=0), the rows alone are reversed
FlipRows(mat) ==
    LET cell == [r \in 1..mat.rows, j \in 1..mat.cols |-> mat.at[mat.rows + 1 - r][j]]
    IN  Matrix(mat.rows, mat.cols, cell)

\* np.flip(m) with no axis given: every axis is reversed
Flip(mat) ==
    LET cell == [r \in 1..mat.rows, j \in 1..mat.cols |->
                    mat.at[mat.rows + 1 - r][mat.cols + 1 - j]]
    IN  Matrix(mat.rows, mat.cols, cell)

\* An estimate of integrated_time: a positive scalar, or a failure to converge.
EstOk(q) == [ok |-> TRUE, tau |-> q]

EstFail == [ok |-> FALSE, tau |-> NaN]

\* The column of the loop of ti_bootstrap at which the call raises, 0 if none:
\* integrated_time fails, or int(tau) = 0 makes the slice step zero.
RECURSIVE FirstFault(_, _)
FirstFault(taus, ii) ==
    IF ii > Len(taus) THEN 0
    ELSE IF ~taus[ii].ok \/ IntOf(taus[ii].tau) = 0 THEN ii
    ELSE FirstFault(taus, ii + 1)

\* num_samples of column ii under the estimate est
ColumnSamples(betalike, ii, est) ==
    NumSamples(Len(Stride(Column(betalike, ii), IntOf(est.tau))))

\* rng.choice(a, (nrows, ncols)): every matrix of that shape over a's values
Choice(a, nrows, ncols) == [1..nrows -> [1..ncols -> Range(a)]]

\* ti_bootstrap(betalike, num_chains, num_reals) under the estimates taus and
\* the draws of the generator, draws[ii][r] being row r drawn for column ii
ti_bootstrap(betalike, num_chains, num_reals, taus, draws) ==
    LET bad == FirstFault(taus, 1)
    IN  IF bad # 0
        THEN [outcome |-> "raised",
              fault |-> IF taus[bad].ok THEN "ValueError" ELSE "AutocorrError"]
        ELSE LET cell == [r \in 1..num_reals, ii \in 1..num_chains |->
                             MeanRow(draws[ii][r])]
                 new_means == Matrix(num_reals, num_chains, cell)
             IN  [outcome |-> "returned", new_means |-> Flip(new_means)]

\* ---------------------------------------------------------- ti_log_evidence
\* a slip: 1 / temps, the ladder not reversed
InvTempsUnreversed(temps) == Array([i \in 1..Len(temps) |-> Norm(1, temps[i])])

\* 1 / temps[::-1]
InvTemps(temps) ==
    LET rev == Reverse(temps) IN Array([i \in 1..Len(temps) |-> Norm(1, rev[i])])

\* np.log10 of a power of two, in units of log10(2)
Log10(q) == R(ILog2(q[1]) - ILog2(q[2]))

\* 10 ** x for x a whole number of units of log10(2)
Pow10(x) == IF x[1] >= 0 THEN <<Pow2(x[1]), 1>> ELSE <<1, Pow2(-x[1])>>

\* np.linspace(start, stop, num)
Linspace(start, stop, num) ==
    Array([i \in 1..num |->
              RAdd(start, RMul(Norm(i - 1, num - 1), RSub(stop, start)))])

\* interp1d(x, y)(g), linear, for g within the range of x: the knots are
\* sorted by interp1d itself, so x may come in any order
Interp(x, y, g) ==
    LET below == {i \in 1..Len(x) : RLeq(x[i], g)}
        above == {i \in 1..Len(x) : RLeq(g, x[i])}
        lo == CHOOSE i \in below : \A j \in below : RLeq(x[j], x[i])
        hi == CHOOSE i \in above : \A j \in above : RLeq(x[i], x[j])
    IN  IF x[lo] = x[hi] THEN y[lo]
        ELSE LET slope == RDiv(RSub(y[hi], y[lo]), RSub(x[hi], x[lo]))
             IN  RAdd(RMul(slope, RSub(g, x[lo])), y[lo])

\* a slip: np.trapz(y), the abscissa left out and unit spacing assumed
TrapzUnitSpacing(y, x) ==
    SumSeq(Array([i \in 1..(Len(x) - 1) |-> RMul(RAdd(y[i + 1], y[i]), <<1, 2>>)]))

\* np.trapz(y, x)
Trapz(y, x) ==
    SumSeq(Array([i \in 1..(Len(x) - 1) |->
                RMul(RSub(x[i + 1], x[i]), RMul(RAdd(y[i + 1], y[i]), <<1, 2>>))]))

\* np.mean
Mean(a) == RDiv(SumSeq(a), R(Len(a)))

\* np.std, squared
StdSq(a) ==
    LET mu == Mean(a)
    IN  Mean(Array([i \in 1..Len(a) |-> RMul(RSub(a[i], mu), RSub(a[i], mu))]))

\* lines 147-161: one log-evidence sample per realization, then mean and std
Integrate(inv_temps, new_means, iterations) ==
    LET x == Array([i \in 1..Len(inv_temps) |-> Log10(inv_temps[i])])
        x_new == Linspace(x[1], x[Len(x)], NumGrid)
        abscissa == Array([g \in 1..NumGrid |-> Pow10(x_new[g])])
        ln_Z_arr == Array([ii \in 1..iterations |->
                        LET y == new_means.at[ii]
                        IN  Trapz(Array([g \in 1..NumGrid |-> Interp(x, y, x_new[g])]),
                                  abscissa)])
    IN  [ln_Z_arr |-> ln_Z_arr, ln_Z |-> Mean(ln_Z_arr), total_unc_sq |-> StdSq(ln_Z_arr)]

\* ti_log_evidence(slices_core, verbose, iterations, remove_hot, plot):
\* remove_hot is not read anywhere in the body
ti_log_evidence(sc, iterations, remove_hot, taus, draws) ==
    LET made == make_betalike(sc)
    IN  IF made.outcome = "raised" THEN made
        ELSE LET inv_temps == InvTemps(made.temps)
                 num_chains == Len(inv_temps)
                 boot == ti_bootstrap(made.betalike, num_chains, iterations, taus, draws)
             IN  IF boot.outcome = "raised" THEN boot
                 ELSE LET res == Integrate(inv_temps, boot.new_means, iterations)
                      IN  [outcome |-> "returned",
                           inv_temps |-> inv_temps,
                           new_means |-> boot.new_means,
                           ln_Z_arr |-> res.ln_Z_arr,
                           ret |-> <<res.ln_Z, res.total_unc_sq>>]

\* ----------------------------------------------------------------- log10_bf
\* An uncertain scalar of the uncertainties package.  Nominal values and
\* squared standard deviations are carried exactly as
\*     coef * e^ex * log10(e)^lg
\* (e^x and log10(e) are irrational): a rational has ex = 0 and lg = 0.
Sym(coef, ex, lg) ==
    IF coef[1] = 0 THEN [coef |-> R(0), ex |-> R(0), lg |-> 0]
    ELSE [coef |-> coef, ex |-> ex, lg |-> lg]

\* ufloat((nominal, std)); .n is the nominal value, .s2 the squared std
ufloat(pair) == [n |-> Sym(pair[1], R(0), 0), s2 |-> Sym(RMul(pair[2], pair[2]), R(0), 0)]

\* a - b of two independent rational uncertain scalars
USub(a, b) ==
    [n |-> Sym(RSub(a.n.coef, b.n.coef), R(0), 0),
     s2 |-> Sym(RAdd(a.s2.coef, b.s2.coef), R(0), 0)]

\* umath.exp(u) of a rational u: nominal e^n, std e^n * s
exp(u) ==
    [n |-> Sym(R(1), u.n.coef, 0),
     s2 |-> Sym(u.s2.coef, RMul(R(2), u.n.coef), 0)]

\* umath.log10(v) of v = exp(u): nominal n * log10(e), std (s/v) * log10(e)
log10(v) ==
    [n |-> Sym(v.n.ex, R(0), 1),
     s2 |-> Sym(v.s2.coef, RSub(v.s2.ex, RMul(R(2), v.n.ex)), 2)]

\* log10_bf(log_ev1, log_ev2, scale); any other scale falls off the end
log10_bf(log_ev1, log_ev2, scale) ==
    LET log_evidence1 == ufloat(log_ev1)
        log_evidence2 == ufloat(log_ev2)
        log_bf == USub(log_evidence2, log_evidence1)
        bf == exp(log_bf)
        log10_of_bf == log10(bf)
    IN  IF scale = "log" THEN [none |-> FALSE, n |-> log_bf.n, s2 |-> log_bf.s2]
        ELSE IF scale = "1" THEN [none |-> FALSE, n |-> bf.n, s2 |-> bf.s2]
        ELSE IF scale = "log10"
             THEN [none |-> FALSE, n |-> log10_of_bf.n, s2 |-> log10_of_bf.s2]
        ELSE [none |-> TRUE, n |-> Sym(R(0), R(0), 0), s2 |-> Sym(R(0), R(0), 0)]

\* ----------------------------------------------------- odds_ratio_bootstrap
\* len(np.where((row > domain[0]) & (row <= domain[1]))[0]); the values of
\* nmodel and the interval ends are carried in halves (1 stands for 0.5)
CountIn(row, domain) ==
    Cardinality({k \in 1..Len(row) : row[k] > domain[1] /\ row[k] <= domain[2]})

\* the first realization whose denominator count is zero, 0 if none
RECURSIVE FirstZero(_, _, _)
FirstZero(new_nmodels, domains, ii) ==
    IF ii > Len(new_nmodels) THEN 0
    ELSE IF CountIn(new_nmodels[ii], domains[2]) = 0 THEN ii
    ELSE FirstZero(new_nmodels, domains, ii + 1)

\* a slip: the counts divided as numpy floats, a zero count giving a ratio
\* that is not finite instead of an exception
odds_ratio_unguarded(nmodel, num_reals, domains, est, new_nmodels) ==
    IF ~est.ok THEN [outcome |-> "raised", fault |-> "AutocorrError"]
    ELSE IF IntOf(est.tau) = 0 THEN [outcome |-> "raised", fault |-> "ValueError"]
    ELSE LET ors == [ii \in 1..num_reals |->
                        Norm(CountIn(new_nmodels[ii], domains[1]),
                             CountIn(new_nmodels[ii], domains[2]))]
         IN  [outcome |-> "returned", ors |-> ors, ret |-> <<Mean(ors), StdSq(ors)>>]

\* odds_ratio_bootstrap(hmcore, num_reals, domains) under the estimate est
\* and the draw new_nmodels; the ratio of two Python ints raises on zero
odds_ratio_bootstrap(nmodel, num_reals, domains, est, new_nmodels) ==
    IF ~est.ok THEN [outcome |-> "raised", fault |-> "AutocorrError"]
    ELSE IF IntOf(est.tau) = 0 THEN [outcome |-> "raised", fault |-> "ValueError"]
    ELSE IF FirstZero(new_nmodels, domains, 1) # 0
         THEN [outcome |-> "raised", fault |-> "ZeroDivisionError"]
    ELSE LET ors == [ii \in 1..num_reals |->
                        Norm(CountIn(new_nmodels[ii], domains[1]),
                             CountIn(new_nmodels[ii], domains[2]))]
         IN  [outcome |-> "returned", ors |-> ors, ret |-> <<Mean(ors), StdSq(ors)>>]

\* ---------------------------------------------------------------- bootstrap
\* a slip: (num_reals, num_samples), as in the other two bootstraps
RealsBySamples(num_reals, num_samples) == <<num_reals, num_samples>>

\* the shape handed to rng.choice by bootstrap
BootstrapShape(num_reals, num_samples) == <<num_samples, num_reals>>

\* ------------------------------------------------------------------ inputs
\* The estimates integrated_time may return: below one, one, a non-integer
\* above one, or no estimate at all (the estimator did not converge).
EstSet == {EstOk(<<1, 2>>), EstOk(<<1, 1>>), EstOk(<<5, 2>>), EstFail}

\* a chain of n samples, all equal to c
Const(n, c) == [k \in 1..n |-> c]

\* a chain of n samples alternating between a and b
Alt(n, a, b) == [k \in 1..n |-> IF k % 2 = 1 THEN a ELSE b]

\* a chain whose first sample is a and whose other n - 1 samples are b
Step(n, a, b) == [k \in 1..n |-> IF k = 1 THEN a ELSE b]

\* a chain of n samples, all different: base - 1, base - 2, ..., base - n
Ramp(n, base) == [k \in 1..n |-> base - k]

\* chains long enough for int(0.1 * len) to be 1 or 2
LongChains == {Const(10, -5), Step(11, -1, -3), Alt(20, -2, -4)}

Core(params, chains) == [params |-> params, chains |-> chains]

\* Ladders of 1..MaxLadder temperatures 2^e, e in 0..MaxExp: strictly
\* ascending from the cold chain T = 1 or strictly descending to it, and
\* spanning a multiple of NumGrid - 1 octaves
Monotone(es) ==
    \/ es[1] = 0 /\ \A i \in 1..(Len(es) - 1) : es[i] < es[i + 1]
    \/ es[Len(es)] = 0 /\ \A i \in 1..(Len(es) - 1) : es[i] > es[i + 1]

OnGrid(es) == (Abs(es[Len(es)] - es[1])) % (NumGrid - 1) = 0

LadderExps ==
    {es \in UNION {[1..n -> 0..MaxExp] : n \in 1..MaxLadder} : Monotone(es) /\ OnGrid(es)}

Temps(es) == [i \in 1..Len(es) |-> Pow2(es[i])]

\* the temperature that stands for the hot chain (T = 1e80 in the docstring)
HotTemp == Pow2(MaxExp)

\* family 1: one or two temperatures, chains of any lengths up to MaxLen,
\* every sample of the accessor different from every other
ShortCores ==
    {Core(<<1, Pow2(NumGrid - 1)>>, <<Ramp(n1, 0), Ramp(n2, -10)>>) :
        n1 \in 1..MaxLen, n2 \in 1..MaxLen}
    \cup {Core(<<1>>, <<Ramp(n, 0)>>) : n \in 1..MaxLen}

\* family 2: one or two temperatures with long chains
LongCores ==
    {Core(<<1>>, <<a>>) : a \in LongChains}
    \cup {Core(<<1, Pow2(NumGrid - 1)>>, <<Step(11, -1, -3), Alt(20, -2, -4)>>),
          Core(<<Pow2(NumGrid - 1), 1>>, <<Step(12, -1, -3), Const(10, -5)>>)}

\* family 3: every ladder, each chain constant: the same constant at every
\* temperature, or the constant -(e + 1) at temperature 2^e
FlatCore(es) == Core(Temps(es), [i \in 1..Len(es) |-> Const(10, -5)])

GradedCore(es) == Core(Temps(es), [i \in 1..Len(es) |-> Const(10, -(es[i] + 1))])

LadderCores == {FlatCore(es) : es \in LadderExps} \cup {GradedCore(es) : es \in LadderExps}

\* family 4: T in {1, 2, 4, 8, 16}, low to high and high to low, a constant
\* log-likelihood of -5 at every temperature; and an accessor with no parameter
FiveExps == {es \in {<<0, 1, 2, 3, 4>>, <<4, 3, 2, 1, 0>>} : OnGrid(es)}

FiveCores == {FlatCore(es) : es \in FiveExps}

EmptyCore == Core(<<>>, <<>>)

CoreSet == ShortCores \cup LongCores \cup LadderCores \cup FiveCores \cup {EmptyCore}

DefaultCore == Core(<<1, Pow2(NumGrid - 1)>>, <<Const(10, -5), Step(11, -1, -3)>>)

\* nmodel chains in halves: 0 is model 0, 2 is model 1, 1 is the shared end 0.5
NmodelSet ==
    {Const(10, 0), Const(10, 2), Alt(10, 0, 2), Alt(20, 0, 2), Step(20, 1, 2)}

DefaultNmodel == Const(10, 2)

\* domains=([-0.5, 0.5], [0.5, 1.5]) and the other way around, in halves
DefaultDomains == <<(<<-1, 1>>), (<<1, 3>>)>>

DomainSet == {DefaultDomains, <<DefaultDomains[2], DefaultDomains[1]>>}

\* (nominal, standard error) pairs handed to log10_bf
EvSet == {<<R(-100), <<1, 2>>>>, <<R(-98), <<1, 2>>>>}

ScaleSet == {"log10", "log", "1", "ln"}

FileNames == {"ti.txt"}

\* the (num_reals, num_samples) asked of bootstrap: fewer realizations than
\* samples, and more
ShapeSet == {<<1, 2>>, <<2, 1>>}

\* what is installed, and what the caller holds
Scenarios ==
    {[unc |-> u, emcee |-> e, sc |-> DefaultCore, nmodel |-> DefaultNmodel] :
        u \in BOOLEAN, e \in BOOLEAN}
    \cup {[unc |-> TRUE, emcee |-> TRUE, sc |-> c, nmodel |-> DefaultNmodel] : c \in CoreSet}
    \cup {[unc |-> TRUE, emcee |-> TRUE, sc |-> DefaultCore, nmodel |-> n] : n \in NmodelSet}

\* ------------------------------------------------------------------- state
VARIABLES
    have_unc,     \* the uncertainties package can be imported
    have_emcee,   \* the emcee package can be imported
    loaded,       \* the module has been imported
    msg,          \* the module global msg: <<>> while unbound, else <<text>>
    slices_core,  \* the accessor the caller holds: params and their chains
    nmodel,       \* hmcore.get_param('nmodel'), in halves
    stdout,       \* the lines written to standard output so far
    files,        \* the file system: name -> <<>> (absent) or <<content>>
    call,         \* the function running or just finished, "none" between calls
    args,         \* its arguments
    locals,       \* its locals: the estimates and draws it was given
    outcome,      \* "none", "returned" or "raised"
    ret,          \* the value returned
    fault         \* the exception raised

vars == <<have_unc, have_emcee, loaded, msg, slices_core, nmodel, stdout, files,
          call, args, locals, outcome, ret, fault>>

env == <<have_unc, have_emcee, slices_core, nmodel>>

UncMsg == "The uncertainties package is required to use some of the thermodynamic integration functions. Please install uncertainties to use these functions."

EmceeMsg == "The emcee package is required to use some of the thermodynamic integration functions. Please install emcee to use these functions."

\* the five print calls of a verbose ti_log_evidence
Report == <<"", "model:", "ln(evidence) =", "error in ln_Z =", "">>

NoValue == <<>>

Init ==
    /\ \E sn \in Scenarios :
          /\ have_unc = sn.unc
          /\ have_emcee = sn.emcee
          /\ slices_core = sn.sc
          /\ nmodel = sn.nmodel
    /\ loaded = FALSE
    /\ msg = <<>>
    /\ stdout = <<>>
    /\ files = [f \in FileNames |-> <<>>]
    /\ call = "none"
    /\ args = NoValue
    /\ locals = NoValue
    /\ outcome = "none"
    /\ ret = NoValue
    /\ fault = ""

\* lines 1-22: importing the module.  Each failed import binds msg and does
\* nothing else: the text is neither printed nor raised.
MsgAfterImport(unc, emcee) ==
    IF ~emcee THEN <<EmceeMsg>> ELSE IF ~unc THEN <<UncMsg>> ELSE <<>>

Load ==
    /\ ~loaded
    /\ loaded' = TRUE
    /\ msg' = MsgAfterImport(have_unc, have_emcee)
    /\ UNCHANGED <<env, stdout, files, call, args, locals, outcome, ret, fault>>

Idle == loaded /\ call = "none"

\* the frame of a call that returned v
Returned(name, a, l, v) ==
    /\ call' = name
    /\ args' = a
    /\ locals' = l
    /\ outcome' = "returned"
    /\ ret' = v
    /\ fault' = ""

\* the frame of a call that raised exc
Raised(name, a, l, exc) ==
    /\ call' = name
    /\ args' = a
    /\ locals' = l
    /\ outcome' = "raised"
    /\ ret' = NoValue
    /\ fault' = exc

\* the caller takes the outcome; the frame is gone
Return ==
    /\ call # "none"
    /\ call' = "none"
    /\ args' = NoValue
    /\ locals' = NoValue
    /\ outcome' = "none"
    /\ ret' = NoValue
    /\ fault' = ""
    /\ UNCHANGED <<env, loaded, msg, stdout, files>>

\* bootstrap(core, param, num_reals, num_samples)
Bootstrap ==
    /\ Idle
    /\ \E ip \in 1..Len(slices_core.params), sh \in ShapeSet, est \in EstSet :
          LET a == [param |-> slices_core.params[ip],
                    num_reals |-> sh[1], num_samples |-> sh[2]]
              l == [tau |-> est]
          IN  IF ~have_emcee THEN Raised("bootstrap", a, NoValue, "NameError")
              ELSE IF ~est.ok THEN Raised("bootstrap", a, l, "AutocorrError")
              ELSE IF IntOf(est.tau) = 0 THEN Raised("bootstrap", a, l, "ValueError")
              ELSE LET array == Stride(get_param(slices_core, a.param), IntOf(est.tau))
                       shape == BootstrapShape(a.num_reals, a.num_samples)
                   IN  \E new_array \in Choice(array, shape[1], shape[2]) :
                          Returned("bootstrap", a, l,
                                   [rows |-> shape[1], cols |-> shape[2], at |-> new_array])
    /\ UNCHANGED <<env, loaded, msg, stdout, files>>

\* make_betalike(slices_core)
MakeBetalike ==
    /\ Idle
    /\ LET made == make_betalike(slices_core)
       IN  IF made.outcome = "raised"
           THEN Raised("make_betalike", NoValue, NoValue, made.fault)
           ELSE Returned("make_betalike", NoValue, NoValue, <<made.temps, made.betalike>>)
    /\ UNCHANGED <<env, loaded, msg, stdout, files>>

\* str(temps[ii])
Str(t) == <<"str", t>>

\* np.savetxt's default format
Fmt(v) == <<"%.18e", v>>

\* core_to_txt(slices_core, outfile)
CoreToTxt ==
    /\ Idle
    /\ \E outfile \in FileNames :
          LET made == make_betalike(slices_core)
              a == [outfile |-> outfile]
          IN  IF made.outcome = "raised"
              THEN /\ Raised("core_to_txt", a, NoValue, made.fault)
                   /\ UNCHANGED files
              ELSE LET temps_str == [ii \in 1..Len(made.temps) |-> Str(made.temps[ii])]
                       rows == [k \in 1..made.betalike.rows |->
                                   [i \in 1..made.betalike.cols |->
                                       Fmt(made.betalike.at[k][i])]]
                   IN  /\ Returned("core_to_txt", a, NoValue, NoValue)
                       /\ files' = [files EXCEPT
                               ![outfile] = <<[header |-> temps_str, rows |-> rows]>>]
    /\ UNCHANGED <<env, loaded, msg, stdout>>

\* every way the generator can fill the draws of columns 1..n
RECURSIVE DrawSeqs(_, _, _, _)
DrawSeqs(betalike, num_reals, taus, n) ==
    IF n = 0 THEN {<<>>}
    ELSE {Append(p, d) :
             p \in DrawSeqs(betalike, num_reals, taus, n - 1),
             d \in Choice(Column(betalike, n), num_reals,
                          ColumnSamples(betalike, n, taus[n]))}

\* the estimates under which the loop of ti_bootstrap carries on
GoodEst == {e \in EstSet : e.ok /\ IntOf(e.tau) # 0}

\* The estimates the loop of ti_bootstrap over num_chains columns gets to
\* see: one per column, or fewer when the last one seen ends the call.
SeenSeqs(num_chains) ==
    [1..num_chains -> GoodEst]
    \cup {Append(g, e) :
             g \in UNION {[1..k -> GoodEst] : k \in 0..(num_chains - 1)},
             e \in EstSet \ GoodEst}

\* ti_bootstrap(betalike, num_chains, num_reals), on the matrix of the accessor
TiBootstrap ==
    /\ Idle
    /\ make_betalike(slices_core).outcome = "returned"
    /\ LET betalike == make_betalike(slices_core).betalike
           num_chains == betalike.cols
       IN  \E num_reals \in 1..MaxReals, taus \in SeenSeqs(num_chains) :
              LET a == [betalike |-> betalike, num_chains |-> num_chains,
                        num_reals |-> num_reals]
              IN  IF ~have_emcee THEN Raised("ti_bootstrap", a, NoValue, "NameError")
                  ELSE IF FirstFault(taus, 1) # 0
                  THEN Raised("ti_bootstrap", a, [taus |-> taus, draws |-> <<>>],
                              ti_bootstrap(betalike, num_chains, num_reals, taus, <<>>).fault)
                  ELSE \E draws \in DrawSeqs(betalike, num_reals, taus, num_chains) :
                          Returned("ti_bootstrap", a, [taus |-> taus, draws |-> draws],
                                   ti_bootstrap(betalike, num_chains, num_reals,
                                                taus, draws).new_means)
    /\ UNCHANGED <<env, loaded, msg, stdout, files>>

\* ti_log_evidence(slices_core, verbose, iterations, remove_hot, plot); the
\* plots are drawn on the side and leave no trace in the state, and verbose
\* shows in stdout alone
TiLogEvidence ==
    /\ Idle
    /\ \E iterations \in 1..MaxReals, remove_hot \in BOOLEAN, verbose \in BOOLEAN :
          LET a == [iterations |-> iterations, remove_hot |-> remove_hot]
              made == make_betalike(slices_core)
          IN  /\ verbose => Len(stdout) + Len(Report) <= MaxReports * Len(Report)
              /\ IF made.outcome = "raised"
                 THEN /\ Raised("ti_log_evidence", a, NoValue, made.fault)
                      /\ UNCHANGED stdout
                 ELSE IF ~have_emcee
                 THEN /\ Raised("ti_log_evidence", a, NoValue, "NameError")
                      /\ UNCHANGED stdout
                 ELSE \E taus \in SeenSeqs(made.betalike.cols) :
                         IF FirstFault(taus, 1) # 0
                         THEN /\ Raised("ti_log_evidence", a,
                                        [taus |-> taus, draws |-> <<>>],
                                        ti_log_evidence(slices_core, iterations,
                                                        remove_hot, taus, <<>>).fault)
                              /\ UNCHANGED stdout
                         ELSE \E draws \in DrawSeqs(made.betalike, iterations, taus,
                                                    made.betalike.cols) :
                                 LET res == ti_log_evidence(slices_core, iterations,
                                                            remove_hot, taus, draws)
                                 IN  /\ Returned("ti_log_evidence", a,
                                                 [taus |-> taus, draws |-> draws,
                                                  inv_temps |-> res.inv_temps,
                                                  new_means |-> res.new_means,
                                                  ln_Z_arr |-> res.ln_Z_arr],
                                                 res.ret)
                                     /\ stdout' = IF verbose THEN stdout \o Report
                                                  ELSE stdout
    /\ UNCHANGED <<env, loaded, msg, files>>

\* log10_bf(log_ev1, log_ev2, scale)
Log10Bf ==
    /\ Idle
    /\ \E log_ev1 \in EvSet, log_ev2 \in EvSet, scale \in ScaleSet :
          LET a == [log_ev1 |-> log_ev1, log_ev2 |-> log_ev2, scale |-> scale]
          IN  IF ~have_unc THEN Raised("log10_bf", a, NoValue, "NameError")
              ELSE Returned("log10_bf", a, NoValue, log10_bf(log_ev1, log_ev2, scale))
    /\ UNCHANGED <<env, loaded, msg, stdout, files>>

\* odds_ratio_bootstrap(hmcore, num_reals, domains)
OddsRatioBootstrap ==
    /\ Idle
    /\ \E num_reals \in 1..MaxReals, domains \in DomainSet, est \in EstSet :
          LET a == [num_reals |-> num_reals, domains |-> domains]
          IN  IF ~have_emcee
              THEN Raised("odds_ratio_bootstrap", a, NoValue, "NameError")
              ELSE IF ~est.ok \/ IntOf(est.tau) = 0
              THEN Raised("odds_ratio_bootstrap", a, [tau |-> est],
                          odds_ratio_bootstrap(nmodel, num_reals, domains, est, <<>>).fault)
              ELSE LET thinned_nmodel == Stride(nmodel, IntOf(est.tau))
                       num_samples == NumSamples(Len(thinned_nmodel))
                   IN  \E new_nmodels \in Choice(nmodel, num_reals, num_samples) :
                          LET res == odds_ratio_bootstrap(nmodel, num_reals, domains,
                                                          est, new_nmodels)
                              l == [tau |-> est, num_samples |-> num_samples,
                                    new_nmodels |-> new_nmodels]
                          IN  IF res.outcome = "raised"
                              THEN Raised("odds_ratio_bootstrap", a, l, res.fault)
                              ELSE Returned("odds_ratio_bootstrap", a, l, res.ret)
    /\ UNCHANGED <<env, loaded, msg, stdout, files>>

Next ==
    \/ Load
    \/ Bootstrap
    \/ MakeBetalike
    \/ CoreToTxt
    \/ TiBootstrap
    \/ TiLogEvidence
    \/ Log10Bf
    \/ OddsRatioBootstrap
    \/ Return

Spec == Init /\ [][Next]_vars

\* ------------------------------------------------------------------ claims
\* the chain stored for column ii of the accessor
ChainOf(ii) == get_param(slices_core, slices_core.params[ii])

NumParams == Len(slices_core.params)

StrictlyDecreasing(t) == \A i \in 1..(Len(t) - 1) : t[i] > t[i + 1]

StrictlyIncreasing(t) == \A i \in 1..(Len(t) - 1) : t[i] < t[i + 1]

RStrictlyAscending(q) == \A i \in 1..(Len(q) - 1) : RLess(q[i], q[i + 1])

RStrictlyDescending(q) == \A i \in 1..(Len(q) - 1) : RLess(q[i + 1], q[i])

\* C1: make_betalike on an accessor with at least one parameter returns; the
\* temperatures come back in the accessor's order; the matrix has as many
\* rows as the shortest chain has samples and one column per parameter; and
\* betalike[k, i] is sample len(chain_i) - min_length + k of chain i, so each
\* column is the trailing min_length samples of its own chain.
C1_TrailingSamples ==
    (call = "make_betalike" /\ NumParams >= 1) =>
        /\ outcome = "returned"
        /\ ret[1] = slices_core.params
        /\ ret[2].cols = NumParams
        /\ \A i \in 1..NumParams : ret[2].rows <= Len(ChainOf(i))
        /\ \E i \in 1..NumParams : ret[2].rows = Len(ChainOf(i))
        /\ \A i \in 1..NumParams : \A k \in 1..ret[2].rows :
              ret[2].at[k][i] = ChainOf(i)[Len(ChainOf(i)) - ret[2].rows + k]

\* C1 witness: a matrix of two rows or more cut from chains of unequal length
C1_Witness ==
    /\ call = "make_betalike"
    /\ outcome = "returned"
    /\ ret[2].rows >= 2
    /\ \E i \in 1..NumParams : Len(ChainOf(i)) > ret[2].rows

\* C2: column j of the matrix ti_bootstrap returns holds the means of the
\* draws made for input column num_chains + 1 - j (counting from one), and
\* those draws hold samples of that input column alone: the columns come out
\* in reverse order.  (np.flip reverses the realizations as well.)
C2_ColumnsReversed ==
    (call = "ti_bootstrap" /\ outcome = "returned") =>
        /\ ret.cols = args.num_chains
        /\ \A j \in 1..ret.cols : \A r \in 1..ret.rows :
              LET src == args.num_chains + 1 - j
                  row == locals.draws[src][ret.rows + 1 - r]
              IN  /\ ret.at[r][j] = MeanRow(row)
                  /\ Range(row) \subseteq Range(Column(args.betalike, src))

\* C2 witness: two columns or more whose means differ
C2_Witness ==
    /\ call = "ti_bootstrap"
    /\ outcome = "returned"
    /\ ret.cols >= 2
    /\ ~IsNaN(ret.at[1][1])
    /\ ~IsNaN(ret.at[1][ret.cols])
    /\ ret.at[1][1] # ret.at[1][ret.cols]

\* C3 as stated: with the ladder ordered high to low, the abscissa
\* inv_temps = 1 / reverse(temps) of ti_log_evidence is strictly ascending.
C3_AscendingFromHighToLow ==
    (call = "ti_log_evidence" /\ outcome = "returned"
        /\ StrictlyDecreasing(slices_core.params)) =>
        RStrictlyAscending(locals.inv_temps)

\* C3 amended: with the ladder ordered high to low the abscissa inv_temps is
\* strictly descending; it is strictly ascending when the ladder is ordered
\* low to high.
C3_OrderOfInvTemps ==
    (call = "ti_log_evidence" /\ outcome = "returned") =>
        /\ Len(locals.inv_temps) = NumParams
        /\ StrictlyDecreasing(slices_core.params) =>
              RStrictlyDescending(locals.inv_temps)
        /\ StrictlyIncreasing(slices_core.params) =>
              RStrictlyAscending(locals.inv_temps)

\* C3 witness: a ladder of two temperatures or more, ordered high to low
C3_Witness ==
    /\ call = "ti_log_evidence"
    /\ outcome = "returned"
    /\ NumParams >= 2
    /\ StrictlyDecreasing(slices_core.params)

\* every realization mean of the call equals c
AllMeans(c) ==
    \A r \in 1..locals.new_means.rows : \A j \in 1..locals.new_means.cols :
        locals.new_means.at[r][j] = c

\* the realization means are one finite constant
ConstantMeans ==
    /\ call = "ti_log_evidence"
    /\ outcome = "returned"
    /\ ~IsNaN(locals.new_means.at[1][1])
    /\ AllMeans(locals.new_means.at[1][1])

\* C4 as stated: when every realization mean is the constant c, the mean
\* log-evidence returned is c; it is -5 for c = -5 over T in {1, 2, 4, 8, 16}.
C4_ConstantGivesConstant ==
    ConstantMeans => ret[1] = locals.new_means.at[1][1]

\* C4 amended: when every realization mean is the constant c, the mean
\* log-evidence returned is c * (inv_temps[-1] - inv_temps[0]), the integral
\* of c over the ladder's own range of inverse temperatures; for c = -5 over
\* T = 1, 2, 4, 8, 16 it is -75/16 = -4.6875 with the ladder given low to
\* high and +4.6875 with it given high to low.
C4_ConstantTimesRange ==
    ConstantMeans =>
        /\ ret[1] = RMul(locals.new_means.at[1][1],
                         RSub(locals.inv_temps[Len(locals.inv_temps)],
                              locals.inv_temps[1]))
        /\ (slices_core.params = <<1, 2, 4, 8, 16>> /\ AllMeans(R(-5))) =>
              ret[1] = <<-75, 16>>
        /\ (slices_core.params = <<16, 8, 4, 2, 1>> /\ AllMeans(R(-5))) =>
              ret[1] = <<75, 16>>

\* C4 witness: the constant -5 over the five temperatures 1, 2, 4, 8, 16
C4_Witness ==
    /\ ConstantMeans
    /\ slices_core.params = <<1, 2, 4, 8, 16>>
    /\ AllMeans(R(-5))

\* C5 as stated: log10_bf with scale='log10' returns as nominal value the
\* difference of the two nominal values handed in, nominal(log_ev2) -
\* nominal(log_ev1); for (-100, 0.5) and (-98, 0.5) that is 2.
C5_Log10OfLog10Evidences ==
    (call = "log10_bf" /\ outcome = "returned" /\ args.scale = "log10") =>
        /\ ret.n = Sym(RSub(args.log_ev2[1], args.log_ev1[1]), R(0), 0)
        /\ (args.log_ev1 = <<R(-100), <<1, 2>>>> /\ args.log_ev2 = <<R(-98), <<1, 2>>>>) =>
              ret.n = Sym(R(2), R(0), 0)

\* the realizations of the odds-ratio call at hand that hold no sample of
\* domain 1
ZeroCounts ==
    {ii \in 1..Len(locals.new_nmodels) :
        CountIn(locals.new_nmodels[ii], args.domains[2]) = 0}

\* an odds-ratio call that got as far as drawing its realizations
OddsDrawn ==
    /\ call = "odds_ratio_bootstrap"
    /\ fault \notin {"NameError", "AutocorrError", "ValueError"}

\* C6 as stated: a realization with no sample in domain 1 raises nothing; the
\* call returns a (mean, std) pair, and the pair is not finite.
C6_ZeroCountPropagates ==
    (OddsDrawn /\ ZeroCounts # {}) =>
        /\ outcome = "returned"
        /\ IsNaN(ret[1])
        /\ IsNaN(ret[2])

\* C6 amended: a realization with no sample in domain 1 makes the call raise
\* ZeroDivisionError, and no pair is returned; a call that returns had a
\* sample of domain 1 in every realization and returns a finite pair.
C6_ZeroCountRaises ==
    OddsDrawn =>
        /\ ZeroCounts # {} => (outcome = "raised" /\ fault = "ZeroDivisionError")
        /\ ZeroCounts = {} =>
              (outcome = "returned" /\ ~IsNaN(ret[1]) /\ ~IsNaN(ret[2]))

\* C6 witness: two realizations of one sample or more, the first with a
\* sample of domain 1 and the second with none
C6_Witness ==
    /\ OddsDrawn
    /\ locals.num_samples >= 1
    /\ args.num_reals >= 2
    /\ ZeroCounts = {2}

\* C7 as stated: bootstrap returns a draw matrix of shape (num_reals,
\* num_samples), ti_bootstrap a matrix of shape (num_reals, num_chains), and
\* every entry of a raw draw matrix occurs in the array it was drawn from.
C7_ShapeRealsBySamples ==
    /\ (call = "bootstrap" /\ outcome = "returned") =>
          /\ ret.rows = args.num_reals
          /\ ret.cols = args.num_samples
          /\ \A r \in 1..ret.rows : Range(ret.at[r]) \subseteq
                Range(get_param(slices_core, args.param))
    /\ (call = "ti_bootstrap" /\ outcome = "returned") =>
          /\ ret.rows = args.num_reals
          /\ ret.cols = args.num_chains

\* C7 amended: bootstrap returns a draw matrix of shape (num_samples,
\* num_reals), one column per realization; ti_bootstrap returns a matrix of
\* shape (num_reals, num_chains); and every entry of a raw draw matrix occurs
\* in the array it was drawn from (for bootstrap the thinned chain).
C7_ShapeSamplesByReals ==
    /\ (call = "bootstrap" /\ outcome = "returned") =>
          /\ ret.rows = args.num_samples
          /\ ret.cols = args.num_reals
          /\ Len(ret.at) = ret.rows
          /\ \A r \in 1..ret.rows :
                /\ Len(ret.at[r]) = ret.cols
                /\ Range(ret.at[r]) \subseteq
                      Range(Stride(get_param(slices_core, args.param),
                                   IntOf(locals.tau.tau)))
    /\ (call = "ti_bootstrap" /\ outcome = "returned") =>
          /\ ret.rows = args.num_reals
          /\ ret.cols = args.num_chains
          /\ \A ii \in 1..args.num_chains :
                /\ Len(locals.draws[ii]) = args.num_reals
                /\ \A r \in 1..args.num_reals :
                      Range(locals.draws[ii][r]) \subseteq
                          Range(Column(args.betalike, ii))

\* C7 witness: a draw matrix asked for with more samples than realizations
C7_Witness ==
    /\ call = "bootstrap"
    /\ outcome = "returned"
    /\ args.num_samples > args.num_reals

\* C8 as stated: with one of the two optional packages missing, the import
\* succeeds, the warning is written once at load time, the functions that need
\* the missing package raise when called and the others still work.
C8_WarnedOnceAtLoad ==
    (loaded /\ ~(have_unc /\ have_emcee)) =>
        /\ Cardinality({i \in 1..Len(stdout) : stdout[i] \in {UncMsg, EmceeMsg}}) = 1
        /\ (call = "log10_bf" /\ ~have_unc) => outcome = "raised"
        /\ (call \in {"bootstrap", "ti_bootstrap", "ti_log_evidence",
                      "odds_ratio_bootstrap"} /\ ~have_emcee) => outcome = "raised"
        /\ call \in {"make_betalike", "core_to_txt"} => outcome = "returned"

\* s without its element at index i
RemoveAt(s, i) == [k \in 1..(Len(s) - 1) |-> IF k < i THEN s[k] ELSE s[k + 1]]

\* the column of the hot chain in the ladder of the accessor
HotIndex == CHOOSE i \in 1..NumParams : slices_core.params[i] = HotTemp

\* the accessor without its hot chain
ColdCore ==
    Core(RemoveAt(slices_core.params, HotIndex), RemoveAt(slices_core.chains, HotIndex))

\* C9 as stated: ti_log_evidence with remove_hot=True on a ladder that holds
\* a hot chain returns what it returns on the ladder without that chain,
\* under the same estimates and draws for the chains that remain.
C9_HotChainRemoved ==
    (/\ call = "ti_log_evidence"
     /\ outcome = "returned"
     /\ args.remove_hot
     /\ NumParams >= 2
     /\ HotTemp \in Range(slices_core.params)
     /\ OnGrid([i \in 1..(NumParams - 1) |-> ILog2(ColdCore.params[i])])) =>
        ret = ti_log_evidence(ColdCore, args.iterations, FALSE,
                              RemoveAt(locals.taus, HotIndex),
                              RemoveAt(locals.draws, HotIndex)).ret

\* C10 as stated: whenever every estimate tau_i is a positive scalar,
\* ti_bootstrap completes, and the realization means of column i are the
\* means of num_reals rows of floor(0.1 * len(column[::floor(tau_i)])) samples
\* each, drawn from the whole column.
C10_AnyPositiveTau ==
    (/\ call = "ti_bootstrap"
     /\ fault # "NameError"
     /\ \A i \in 1..Len(locals.taus) : locals.taus[i].ok) =>
        /\ outcome = "returned"
        /\ \A i \in 1..args.num_chains :
              /\ Len(locals.draws[i]) = args.num_reals
              /\ \A r \in 1..args.num_reals :
                    /\ Len(locals.draws[i][r]) =
                          Len(Stride(Column(args.betalike, i),
                                     IntOf(locals.taus[i].tau))) \div 10
                    /\ Range(locals.draws[i][r]) \subseteq
                          Range(Column(args.betalike, i))
                    /\ ret.at[args.num_reals + 1 - r][args.num_chains + 1 - i] =
                          MeanRow(locals.draws[i][r])

====
